---- MODULE Spec2Model ----
(***************************************************************************)
(* A model of the chat-with-data application (src/app.py): the SQL safety  *)
(* gate, the database query tool, the support ticket tool and the agent    *)
(* loop that dispatches the tool calls a language model requests.          *)
(*                                                                         *)
(* Text is modelled as a sequence of one-character strings, so that the    *)
(* safety gate's lower-casing and substring search are computed and not    *)
(* assumed.  A JSON text is a sequence of tokens: the punctuation of an    *)
(* array, object tokens (one per JSON object) and, after a truncated       *)
(* result, the tokens of the note appended outside the JSON structure.     *)
(***************************************************************************)
EXTENDS Integers, Sequences, FiniteSets, TLC

VARIABLES
  db,               \* the database file's contents: [tables, movies]
  dbExists,         \* os.path.exists(DB_FILENAME)
  sql_query,        \* the argument of the last query_database call
  results,          \* cur.fetchall() of the last call: <<rows>>, or <<>> if none
  connected,        \* whether the last call opened a connection
  executed,         \* the statements the last call passed to cur.execute
  function_result,  \* the string the last tool call returned
  secrets,          \* the keys present in st.secrets
  ticket,           \* the arguments of the last create_support_ticket call
  posts,            \* the POST requests the last create_support_ticket call issued
  response,         \* the outcome of the tracker POST of the last call
  messages,         \* st.session_state.messages
  prompt,           \* the text the user submitted in this turn
  chat,             \* the chat session's history (ChatSession.history)
  sent,             \* the content of the request in flight to the model
  response_part,    \* response.candidates[0].content.parts[0]
  pc,               \* the agent loop's position
  preTurn,          \* history: st.session_state.messages when the turn was submitted
  produced,         \* history: every turn produced in the session, in order
  roundTrips        \* history: the model responses received in the session

queryVars == <<db, dbExists, sql_query, results, connected, executed>>
ticketVars == <<secrets, ticket, posts, response>>
agentVars == <<messages, prompt, chat, sent, response_part, pc, preTurn, produced, roundTrips>>
vars == <<queryVars, function_result, ticketVars, agentVars>>

-----------------------------------------------------------------------------
(* Bounds of the model. *)

\* The most rows the movie table holds initially.
MaxRows == 22
\* The most fragments a candidate SQL statement is concatenated from.
MaxFrags == 2
\* The most responses the model service gives in one session.
MaxRoundTrips == 3

-----------------------------------------------------------------------------
(* Text. *)

Min(a, b) == IF a < b THEN a ELSE b

UpperToLower ==
  "A" :> "a" @@ "B" :> "b" @@ "C" :> "c" @@ "D" :> "d" @@ "E" :> "e" @@
  "F" :> "f" @@ "G" :> "g" @@ "H" :> "h" @@ "I" :> "i" @@ "J" :> "j" @@
  "K" :> "k" @@ "L" :> "l" @@ "M" :> "m" @@ "N" :> "n" @@ "O" :> "o" @@
  "P" :> "p" @@ "Q" :> "q" @@ "R" :> "r" @@ "S" :> "s" @@ "T" :> "t" @@
  "U" :> "u" @@ "V" :> "v" @@ "W" :> "w" @@ "X" :> "x" @@ "Y" :> "y" @@
  "Z" :> "z"

\* str.lower()
LowerChar(c) == IF c \in DOMAIN UpperToLower THEN UpperToLower[c] ELSE c

RECURSIVE Lower(_)
Lower(s) == IF s = <<>> THEN <<>> ELSE <<LowerChar(Head(s))>> \o Lower(Tail(s))

\* keyword in text (Python's substring test)
Contains(text, keyword) ==
  \E i \in 1..(Len(text) - Len(keyword) + 1) :
    \A j \in 1..Len(keyword) : text[i + j - 1] = keyword[j]

\* str(n) for n >= 0, as the f-strings format a number
RECURSIVE IntToStr(_)
IntToStr(n) ==
  LET digit == <<"0", "1", "2", "3", "4", "5", "6", "7", "8", "9">>[(n % 10) + 1]
  IN IF n < 10 THEN <<digit>> ELSE Append(IntToStr(n \div 10), digit)

-----------------------------------------------------------------------------
(* The safety gate. *)

BANNED_SQL_KEYWORDS == <<
  <<"d","e","l","e","t","e">>,
  <<"d","r","o","p">>,
  <<"u","p","d","a","t","e">>,
  <<"i","n","s","e","r","t">>,
  <<"a","l","t","e","r">>,
  <<"t","r","u","n","c","a","t","e">>,
  <<"g","r","a","n","t">>,
  <<"r","e","v","o","k","e">>,
  <<"s","h","u","t","d","o","w","n">> >>

\* A gate that compares without lower-casing the statement.
is_query_safe_case_sensitive(sql) ==
  \A k \in DOMAIN BANNED_SQL_KEYWORDS : ~Contains(sql, BANNED_SQL_KEYWORDS[k])

is_query_safe(sql) ==
  LET query_lower == Lower(sql)
  IN \A k \in DOMAIN BANNED_SQL_KEYWORDS : ~Contains(query_lower, BANNED_SQL_KEYWORDS[k])

-----------------------------------------------------------------------------
(* Candidate SQL statements: concatenations of these fragments. *)

F_SelectAll == <<"S","E","L","E","C","T"," ","*"," ","F","R","O","M"," ","m","o","v","i","e","s">>
F_SelectDup == <<"S","E","L","E","C","T"," ","T","i","t","l","e",",","T","i","t","l","e"," ","F","R","O","M"," ","m","o","v","i","e","s">>
F_Limit == <<" ","L","I","M","I","T"," ","5">>
F_WhereDropout == <<" ","W","H","E","R","E"," ","T","i","t","l","e","=","'","D","r","o","p","o","u","t","'">>
F_DropTable == <<"D","R","O","P"," ","T","A","B","L","E"," ","m","o","v","i","e","s">>
F_De == <<"D","E">>
F_LeteFrom == <<"l","e","t","e"," ","F","R","O","M"," ","m","o","v","i","e","s">>
F_CreateTable == <<"C","R","E","A","T","E"," ","T","A","B","L","E"," ","t","(","x",")">>
F_Replace == <<"R","E","P","L","A","C","E"," ","I","N","T","O"," ","m","o","v","i","e","s"," ","D","E","F","A","U","L","T"," ","V","A","L","U","E","S">>

\* What a statement starts with, and what may follow.
Fragments ==
  { F_SelectAll, F_SelectDup, F_Limit, F_WhereDropout, F_DropTable, F_De,
    F_LeteFrom, F_CreateTable, F_Replace }
Tails == { F_Limit, F_WhereDropout, F_LeteFrom }

RECURSIVE StatementsOf(_)
StatementsOf(n) ==
  IF n = 1 THEN Fragments
  ELSE LET shorter == StatementsOf(n - 1)
       IN shorter \cup { s \o f : s \in shorter, f \in Tails }

Statements == StatementsOf(MaxFrags)

-----------------------------------------------------------------------------
(* JSON texts. *)

LBracket == [t |-> "["]
RBracket == [t |-> "]"]
Comma == [t |-> ","]
Newline == [t |-> "newline"]

\* json.dumps(obj) of a dictionary: one object token.
JsonDumps(obj) == << [t |-> "object", obj |-> obj] >>

RECURSIVE JoinObjects(_)
JoinObjects(objs) ==
  IF objs = <<>> THEN <<>>
  ELSE IF Len(objs) = 1 THEN JsonDumps(objs[1])
  ELSE JsonDumps(objs[1]) \o <<Comma>> \o JoinObjects(Tail(objs))

\* The JSON array of a list of objects.
JsonArray(objs) == <<LBracket>> \o JoinObjects(objs) \o <<RBracket>>

-----------------------------------------------------------------------------
(* The storage engine and the connection the query tool opens per call. *)

TableName == "movies"

\* The database file after the ingestion script ran: one table of n rows.
MovieDb(n) == [tables |-> {TableName}, movies |-> [i \in 1..n |-> i]]

StartsWith(s, prefix) ==
  Len(s) >= Len(prefix) /\ SubSeq(s, 1, Len(prefix)) = prefix

RECURSIVE LStrip(_)
LStrip(s) ==
  IF s # <<>> /\ Head(s) = " " THEN LStrip(Tail(s)) ELSE s

\* The statements the engine is given in this model, as it reads them:
\* keywords and names are case-insensitive.
SqlSelectAll == Lower(F_SelectAll)
SqlSelectAllLimit == Lower(F_SelectAll \o F_Limit)
SqlSelectDup == Lower(F_SelectDup)
SqlSelectDupLimit == Lower(F_SelectDup \o F_Limit)
SqlDropTable == Lower(F_DropTable)
SqlDelete == Lower(F_De \o F_LeteFrom)
SqlReplace == Lower(F_Replace)
SqlCreateTable == Lower(F_CreateTable)

\* The engine's execution of one statement on database d: a result set
\* (description and rows), a statement without result set, or an error.
sqlite_execute(sql, d) ==
  LET s == Lower(sql)
      n == Len(d.movies)
      has == TableName \in d.tables
      Rows(cols, r) == [outcome |-> "rows", description |-> cols, rows |-> r, db |-> d]
      Done(d2) == [outcome |-> "done", description |-> <<>>, rows |-> <<>>, db |-> d2]
      Error == [outcome |-> "error", description |-> <<>>, rows |-> <<>>, db |-> d]
  IN IF s = SqlSelectAll /\ has
       THEN Rows(<<"ROWID", "Title">>, d.movies)
     ELSE IF s = SqlSelectAllLimit /\ has
       THEN Rows(<<"ROWID", "Title">>, SubSeq(d.movies, 1, Min(5, n)))
     ELSE IF s = SqlSelectDup /\ has
       THEN Rows(<<"Title", "Title">>, d.movies)
     ELSE IF s = SqlSelectDupLimit /\ has
       THEN Rows(<<"Title", "Title">>, SubSeq(d.movies, 1, Min(5, n)))
     ELSE IF s = SqlDropTable /\ has
       THEN Done([tables |-> d.tables \ {TableName}, movies |-> <<>>])
     ELSE IF s = SqlDelete /\ has
       THEN Done([d EXCEPT !.movies = <<>>])
     ELSE IF s = SqlReplace /\ has
       THEN Done([d EXCEPT !.movies = Append(d.movies, n + 1)])
     ELSE IF s = SqlCreateTable /\ "t" \notin d.tables
       THEN Done([d EXCEPT !.tables = d.tables \cup {"t"}])
     ELSE Error

\* The connection opens a transaction of its own before a statement that
\* starts with one of these words, and only before those.
is_dml(sql) ==
  LET s == Lower(LStrip(sql))
  IN \/ StartsWith(s, <<"i","n","s","e","r","t">>)
     \/ StartsWith(s, <<"u","p","d","a","t","e">>)
     \/ StartsWith(s, <<"d","e","l","e","t","e">>)
     \/ StartsWith(s, <<"r","e","p","l","a","c","e">>)

\* connect, execute, fetchall, close: the call never commits, so close
\* discards what an open transaction wrote; any other statement the engine
\* commits by itself.
run_statement(sql, d) ==
  IF is_dml(sql)
    THEN [sqlite_execute(sql, d) EXCEPT !.db = d]
    ELSE sqlite_execute(sql, d)

-----------------------------------------------------------------------------
(* Tool 1: the database query tool. *)

\* The row count above which a result is truncated.
TruncationLimit == 20

Unique(cols) == \A i, j \in DOMAIN cols : cols[i] = cols[j] => i = j

RowObjects(rows) == [i \in DOMAIN rows |-> [ROWID |-> rows[i]]]

\* df.to_json(orient="records")
to_json(rows) == JsonArray(RowObjects(rows))

\* The note appended after the JSON text of a truncated result.
TruncationNote(more) ==
  << Newline, [t |-> "text", text |-> <<"... (truncated, ", IntToStr(more), " more rows)">>] >>

\* Truncates at the limit itself.
format_records_off_by_one(rows) ==
  IF Len(rows) >= TruncationLimit
    THEN to_json(SubSeq(rows, 1, TruncationLimit)) \o TruncationNote(Len(rows) - TruncationLimit)
    ELSE to_json(rows)

\* if len(df) > 20: head(20) plus the note, else the whole frame
format_records(rows) ==
  IF Len(rows) > TruncationLimit
    THEN to_json(SubSeq(rows, 1, TruncationLimit)) \o TruncationNote(Len(rows) - TruncationLimit)
    ELSE to_json(rows)

NotAllowedError ==
  JsonDumps([error |-> "Query is not allowed. Only read-only SELECT statements are permitted."])
NotFoundError ==
  JsonDumps([error |-> "Database file 'movies.db' not found. Please run setup.py."])
DatabaseError == JsonDumps([error |-> "An error occurred: sqlite3.Error"])
UnexpectedError == JsonDumps([error |-> "An unexpected error occurred."])
NoResultsMessage == JsonDumps([message |-> "Query executed, but no results to return."])

\* What query_database returns once the statement has run with outcome r.
query_outcome(sql, r) ==
  LET out(text, fetched) ==
        [result |-> text, results |-> fetched, connected |-> TRUE,
         executed |-> <<sql>>, db |-> r.db]
  IN IF r.outcome = "error" THEN out(DatabaseError, <<>>)
     ELSE IF r.description = <<>> THEN out(NoResultsMessage, <<r.rows>>)
     ELSE IF ~Unique(r.description) THEN out(UnexpectedError, <<r.rows>>)
     ELSE out(format_records(r.rows), <<r.rows>>)

\* query_database(sql_query) on database d: the string returned, and what
\* the call did to reach it.
query_database(sql, exists, d) ==
  IF ~is_query_safe(sql)
    THEN [result |-> NotAllowedError, results |-> <<>>, connected |-> FALSE,
          executed |-> <<>>, db |-> d]
  ELSE IF ~exists
    THEN [result |-> NotFoundError, results |-> <<>>, connected |-> FALSE,
          executed |-> <<>>, db |-> d]
  ELSE CHOOSE o \in {query_outcome(sql, r) : r \in {run_statement(sql, d)}} : TRUE

-----------------------------------------------------------------------------
(* The query tool called on its own, any number of times. *)

\* The row counts the movie table starts with.
RowCounts == {0, 1, TruncationLimit - 1, TruncationLimit, TruncationLimit + 1, MaxRows}

QueryInit ==
  /\ \E n \in RowCounts : db = MovieDb(n)
  /\ dbExists \in BOOLEAN
  /\ sql_query = <<>>
  /\ results = <<>>
  /\ connected = FALSE
  /\ executed = <<>>
  /\ function_result = <<>>

QueryDatabaseCall ==
  \E sql \in Statements :
    \E r \in {query_database(sql, dbExists, db)} :
       /\ sql_query' = sql
       /\ function_result' = r.result
       /\ results' = r.results
       /\ connected' = r.connected
       /\ executed' = r.executed
       /\ db' = r.db
       /\ UNCHANGED dbExists

TicketIdle ==
  /\ secrets = {}
  /\ ticket = <<>>
  /\ posts = <<>>
  /\ response = <<>>

\* No chat session is in use.
AgentIdle ==
  /\ messages = <<>>
  /\ prompt = ""
  /\ chat = <<>>
  /\ sent = [none |-> TRUE]
  /\ response_part = [none |-> TRUE]
  /\ pc = "Idle"
  /\ preTurn = <<>>
  /\ produced = <<>>
  /\ roundTrips = 0

InitQuery == QueryInit /\ TicketIdle /\ AgentIdle
NextQuery == QueryDatabaseCall /\ UNCHANGED <<ticketVars, agentVars>>
SpecQuery == InitQuery /\ [][NextQuery]_vars

-----------------------------------------------------------------------------
(* Properties of the safety gate and the query tool, under SpecQuery. *)

IsErrorPayload(text) ==
  /\ Len(text) = 1
  /\ text[1].t = "object"
  /\ "error" \in DOMAIN text[1].obj

HasBannedKeyword(sql) ==
  \E k \in DOMAIN BANNED_SQL_KEYWORDS : Contains(Lower(sql), BANNED_SQL_KEYWORDS[k])

\* C1: a statement whose lower-cased text contains a denylisted keyword is
\* denied by the gate, query_database returns an error payload for it
\* whether or not the database file exists, and no call ever opens a
\* connection or executes such a statement.
C1_DeniedNeverExecuted ==
  /\ (sql_query # <<>> /\ HasBannedKeyword(sql_query)) =>
        /\ ~is_query_safe(sql_query)
        /\ IsErrorPayload(function_result)
        /\ ~connected
        /\ executed = <<>>
  /\ \A i \in DOMAIN executed : ~HasBannedKeyword(executed[i])

\* A mixed-case keyword that straddles two fragments was denied although
\* the database file exists.
C1_Witness ==
  /\ sql_query = F_De \o F_LeteFrom
  /\ dbExists
  /\ function_result = NotAllowedError
  /\ executed = <<>>

\* The call returned the records of a result set.
ReturnedRecords ==
  /\ results # <<>>
  /\ function_result # <<>>
  /\ function_result[1] = LBracket

\* The position of the first closing bracket of a text.
ClosingBracket(text) ==
  CHOOSE i \in DOMAIN text :
    text[i] = RBracket /\ \A j \in 1..(i - 1) : text[j] # RBracket

\* C2: a successful query of n rows returns, for n > 20, exactly the first
\* 20 rows in result order followed by a note that n - 20 more rows were
\* omitted, and for n <= 20 all n rows in order and no note.
C2_TruncatesAboveTwenty ==
  ReturnedRecords =>
    LET rows == results[1]
        n == Len(rows)
        close == ClosingBracket(function_result)
        array == SubSeq(function_result, 1, close)
        rest == SubSeq(function_result, close + 1, Len(function_result))
    IN IF n > 20
         THEN /\ array = JsonArray([i \in 1..20 |-> [ROWID |-> rows[i]]])
              /\ Len(rest) = 2
              /\ rest[2].text[2] = IntToStr(n - 20)
         ELSE /\ array = JsonArray([i \in 1..n |-> [ROWID |-> rows[i]]])
              /\ rest = <<>>

\* A result of 21 rows was returned as 20 records and a note of 1 more.
C2_Witness ==
  /\ ReturnedRecords
  /\ Len(results[1]) = 21
  /\ Len(function_result) = 2 * 20 + 1 + 2
  /\ function_result[Len(function_result)].text[2] = <<"1">>

\* C8: no call of query_database changes the contents of the database file.
C8_ReadOnly == [][db' = db]_vars

-----------------------------------------------------------------------------
(* Tool 2: the support ticket tool. *)

\* st.secrets: the values of the keys that are configured.
SecretValues ==
  [GOOGLE_API_KEY |-> "key", GITHUB_TOKEN |-> "token", GITHUB_REPO |-> "owner/repo"]

SecretsWith(keys) == [k \in keys |-> SecretValues[k]]

\* The configurations the application starts with: it stops at start-up
\* without the model API key.
Configurations ==
  { SecretsWith({"GOOGLE_API_KEY"} \cup keys) : keys \in SUBSET {"GITHUB_TOKEN", "GITHUB_REPO"} }

\* Response bodies of the tracker: the raw text, and the object it decodes
\* to (none when the text is not JSON).
BodyIssue42 ==
  [text |-> "{\"number\": 42, \"html_url\": \"http://x/42\"}",
   json |-> <<[number |-> 42, html_url |-> "http://x/42"]>>]
BodyIssue7 ==
  [text |-> "{\"number\": 7, \"html_url\": \"http://x/7\"}",
   json |-> <<[number |-> 7, html_url |-> "http://x/7"]>>]
BodyMessage ==
  [text |-> "{\"message\": \"Validation Failed\"}",
   json |-> <<[message |-> "Validation Failed"]>>]
BodyHtml == [text |-> "<html>Bad Gateway</html>", json |-> <<>>]

Bodies == {BodyIssue42, BodyIssue7, BodyMessage, BodyHtml}
StatusCodes == {200, 201, 403, 404, 422}

\* What requests.post can do: return a response, or raise a
\* RequestException.  Decoding a body that is not JSON raises an exception
\* that is a RequestException in some versions of the library and a
\* ValueError in others.
PostOutcomes ==
  { [kind |-> "response", status_code |-> c, body |-> b, decode_error |-> "ValueError"] :
      c \in StatusCodes, b \in Bodies }
  \cup { [kind |-> "response", status_code |-> 201, body |-> BodyHtml,
          decode_error |-> "RequestException"] }
  \cup { [kind |-> "RequestException"] }

MissingConfigurationError ==
  JsonDumps([error |-> "Failed to create ticket: Server is missing GitHub configuration."])
NetworkError ==
  JsonDumps([error |-> "Failed to create ticket: A network error occurred."])
UnexpectedTicketError ==
  JsonDumps([error |-> "An unexpected error occurred while creating the ticket."])

ApiRejectionError(status_code, text) ==
  JsonDumps([error |-> <<"Failed to create ticket. GitHub API responded with status ",
                         IntToStr(status_code), ".">>,
             details |-> text])

TicketCreated(title, number, html_url) ==
  LET ticket_id == <<"G", "H", "-">> \o IntToStr(number)
  IN JsonDumps([status |-> "success",
                ticket_id |-> ticket_id,
                ticket_url |-> html_url,
                title |-> title,
                message |-> <<"Support ticket ", ticket_id,
                              " has been successfully created. A human will review it at: ",
                              html_url>>])

\* Any 2xx status counts as created.
status_is_created_any_2xx(status_code) == status_code \in 200..299

\* response.status_code == 201
status_is_created(status_code) == status_code = 201

\* The payload for the outcome of the POST.
ticket_payload(title, outcome) ==
  IF outcome.kind = "RequestException" THEN NetworkError
  ELSE IF status_is_created(outcome.status_code)
    THEN IF outcome.body.json = <<>>
           THEN IF outcome.decode_error = "RequestException"
                  THEN NetworkError ELSE UnexpectedTicketError
         ELSE IF ~({"number", "html_url"} \subseteq DOMAIN outcome.body.json[1])
           THEN UnexpectedTicketError
         ELSE TicketCreated(title, outcome.body.json[1].number, outcome.body.json[1].html_url)
  ELSE ApiRejectionError(outcome.status_code, outcome.body.text)

IssueRequest(title, description, config) ==
  [url |-> <<"https://api.github.com/repos/", config["GITHUB_REPO"], "/issues">>,
   json |-> [title |-> title, body |-> description],
   headers |-> [Authorization |-> <<"Bearer ", config["GITHUB_TOKEN"]>>,
                Accept |-> "application/vnd.github.v3+json"]]

\* A tool that posts again when the first POST did not create the issue.
create_support_ticket_retrying(title, description, config, outcome) ==
  IF "GITHUB_TOKEN" \notin DOMAIN config \/ "GITHUB_REPO" \notin DOMAIN config
    THEN [result |-> MissingConfigurationError, posts |-> <<>>, response |-> <<>>]
    ELSE [result |-> ticket_payload(title, outcome),
          posts |-> IF outcome.kind = "response" /\ status_is_created(outcome.status_code)
                      THEN <<IssueRequest(title, description, config)>>
                      ELSE <<IssueRequest(title, description, config),
                             IssueRequest(title, description, config)>>,
          response |-> <<outcome>>]

\* create_support_ticket(title, description) when the POST, if issued, has
\* this outcome: the string returned and the POSTs issued.
create_support_ticket(title, description, config, outcome) ==
  IF "GITHUB_TOKEN" \notin DOMAIN config \/ "GITHUB_REPO" \notin DOMAIN config
    THEN [result |-> MissingConfigurationError, posts |-> <<>>, response |-> <<>>]
    ELSE [result |-> ticket_payload(title, outcome),
          posts |-> <<IssueRequest(title, description, config)>>,
          response |-> <<outcome>>]

-----------------------------------------------------------------------------
(* The ticket tool called on its own, any number of times. *)

Titles == {"Bug", "Help", "Crash"}
Descriptions == {"desc", ""}

TicketInit ==
  /\ secrets \in Configurations
  /\ ticket = <<>>
  /\ posts = <<>>
  /\ response = <<>>

CreateSupportTicketCall ==
  \E title \in Titles, description \in Descriptions, outcome \in PostOutcomes :
    \E r \in {create_support_ticket(title, description, secrets, outcome)} :
      /\ ticket' = <<title, description>>
      /\ function_result' = r.result
      /\ posts' = r.posts
      /\ response' = r.response
      /\ UNCHANGED secrets

QueryIdle ==
  /\ db = MovieDb(0)
  /\ dbExists = FALSE
  /\ sql_query = <<>>
  /\ results = <<>>
  /\ connected = FALSE
  /\ executed = <<>>
  /\ function_result = <<>>

InitTicket == TicketInit /\ QueryIdle /\ AgentIdle
NextTicket == CreateSupportTicketCall /\ UNCHANGED <<queryVars, agentVars>>
SpecTicket == InitTicket /\ [][NextTicket]_vars

-----------------------------------------------------------------------------
(* Properties of the ticket tool, under SpecTicket. *)

HasCredentials == {"GITHUB_TOKEN", "GITHUB_REPO"} \subseteq DOMAIN secrets

\* C4: a call of create_support_ticket issues no POST and returns an error
\* payload when the token or the repository is not configured, and exactly
\* one POST otherwise, whatever the outcome of that POST: never two.
C4_AtMostOnePost ==
  ticket # <<>> =>
    /\ Len(posts) <= 1
    /\ ~HasCredentials => (posts = <<>> /\ IsErrorPayload(function_result))
    /\ HasCredentials =>
         /\ Len(posts) = 1
         /\ posts[1].json = [title |-> ticket[1], body |-> ticket[2]]

\* The tracker was unreachable and the call still issued its one POST.
C4_Witness ==
  /\ ticket # <<>>
  /\ HasCredentials
  /\ response = << [kind |-> "RequestException"] >>
  /\ Len(posts) = 1

IsSuccessPayload(text) ==
  /\ Len(text) = 1
  /\ text[1].t = "object"
  /\ "status" \in DOMAIN text[1].obj
  /\ text[1].obj.status = "success"

\* C5: with credentials, HTTP 201 with a body of number and html_url gives
\* a success payload of the prefixed number and the same URL; any other
\* status gives an error payload with the status code and the raw body; a
\* network failure gives an error payload that no API rejection gives; and
\* only HTTP 201 gives a success payload.
C5_PayloadFollowsOutcome ==
  (ticket # <<>> /\ HasCredentials) =>
    LET outcome == response[1]
        payload == function_result[1].obj
    IN /\ Len(response) = 1
       /\ (outcome.kind = "response" /\ outcome.status_code = 201
             /\ outcome.body.json # <<>>
             /\ {"number", "html_url"} \subseteq DOMAIN outcome.body.json[1]) =>
            /\ IsSuccessPayload(function_result)
            /\ payload.ticket_id = <<"G", "H", "-">> \o IntToStr(outcome.body.json[1].number)
            /\ payload.ticket_url = outcome.body.json[1].html_url
       /\ (outcome.kind = "response" /\ outcome.status_code # 201) =>
            /\ IsErrorPayload(function_result)
            /\ "details" \in DOMAIN payload
            /\ payload.error[2] = IntToStr(outcome.status_code)
            /\ payload.details = outcome.body.text
       /\ outcome.kind = "RequestException" =>
            /\ IsErrorPayload(function_result)
            /\ \A c \in StatusCodes, b \in Bodies :
                 function_result # ApiRejectionError(c, b.text)
       /\ IsSuccessPayload(function_result) =>
            (outcome.kind = "response" /\ outcome.status_code = 201)

\* The tracker answered 201 with issue 42 and the call returned GH-42.
C5_Witness ==
  /\ ticket # <<>>
  /\ response # <<>>
  /\ response[1].kind = "response"
  /\ response[1].status_code = 201
  /\ response[1].body = BodyIssue42
  /\ IsSuccessPayload(function_result)
  /\ function_result[1].obj.ticket_id = <<"G", "H", "-", "4", "2">>
  /\ function_result[1].obj.ticket_url = "http://x/42"

-----------------------------------------------------------------------------
(* The agent loop. *)

\* json.loads(text): the value of a text that is one JSON object or one
\* array of objects, with white space around it; anything else is a fault.
RECURSIVE Strip(_)
Strip(text) ==
  IF text # <<>> /\ Head(text) = Newline THEN Strip(Tail(text))
  ELSE IF text # <<>> /\ text[Len(text)] = Newline THEN Strip(SubSeq(text, 1, Len(text) - 1))
  ELSE text

IsJsonArray(text) ==
  /\ Len(text) >= 2
  /\ text[1] = LBracket
  /\ text[Len(text)] = RBracket
  /\ Len(text) = 2 \/ Len(text) % 2 = 1
  /\ \A i \in 2..(Len(text) - 1) :
       IF i % 2 = 0 THEN text[i].t = "object" ELSE text[i] = Comma

json_loads(text) ==
  LET body == Strip(text)
  IN IF Len(body) = 1 /\ body[1].t = "object"
       THEN [ok |-> TRUE, value |-> [dict |-> body[1].obj]]
     ELSE IF IsJsonArray(body)
       THEN [ok |-> TRUE,
             value |-> [list |-> [i \in 1..((Len(body) - 1) \div 2) |-> body[2 * i].obj]]]
     ELSE [ok |-> FALSE, value |-> [none |-> TRUE]]

\* The tool registry, and the parameters each tool declares.
tools == {"query_database", "create_support_ticket"}
ToolParameters ==
  [query_database |-> {"sql_query"}, create_support_ticket |-> {"title", "description"}]

\* Parts and turns.
TextPart(text) == [text |-> text]
FunctionCallPart(name, args) == [function_call |-> [name |-> name, args |-> args]]
FunctionResponsePart(name, content) ==
  [function_response |-> [name |-> name, response |-> [content |-> content]]]
Turn(role, parts) == [role |-> role, parts |-> parts]

Greeting == Turn("model", TextPart("Hello! How can I help you with the movie data today?"))
FallbackResponse == "Sorry, I'm not sure how to respond to that."
UnknownToolMessage(name) == TextPart("Error: Unknown tool '" \o name \o "'")

IsFunctionCall(part) == "function_call" \in DOMAIN part

\* What the user may type, and the one part the model service may answer with.
Prompts == {"How many movies are there?"}
ModelParts ==
  { TextPart("There are 21 movies."),
    TextPart(""),
    FunctionCallPart("query_database", [sql_query |-> F_SelectAll]),
    FunctionCallPart("query_database", [sql_query |-> F_DropTable]),
    FunctionCallPart("query_database", [query |-> F_SelectAll]),
    FunctionCallPart("create_support_ticket", [title |-> "Bug", description |-> "desc"]),
    FunctionCallPart("run_python", [code |-> "1 + 1"]) }

\* The tracker's answers while the agent runs.
AgentPostOutcomes ==
  { [kind |-> "response", status_code |-> 201, body |-> BodyIssue42, decode_error |-> "ValueError"],
    [kind |-> "response", status_code |-> 422, body |-> BodyMessage, decode_error |-> "ValueError"],
    [kind |-> "RequestException"] }

\* The history a request carries: the chat session's history and the new content.
SentHistory == Append(chat, sent)

\* The session starts with the model's greeting and no turn in progress.
AgentInit ==
  /\ messages = <<Greeting>>
  /\ prompt = ""
  /\ chat = <<>>
  /\ sent = [none |-> TRUE]
  /\ response_part = [none |-> TRUE]
  /\ pc = "Idle"
  /\ preTurn = <<>>
  /\ produced = <<Greeting>>
  /\ roundTrips = 0

\* The user submits a prompt: it is appended to the history, a chat session
\* is started with the history before it, and the prompt is sent.
Submit ==
  /\ pc \in {"Idle", "Done", "DoneError"}
  /\ roundTrips < MaxRoundTrips
  /\ \E p \in Prompts :
       /\ prompt' = p
       /\ messages' = Append(messages, Turn("user", TextPart(p)))
       /\ chat' = messages
       /\ sent' = Turn("user", TextPart(p))
       /\ produced' = Append(produced, Turn("user", TextPart(p)))
  /\ preTurn' = messages
  /\ roundTrips' = roundTrips + 1
  /\ pc' = "AwaitingModel"
  /\ UNCHANGED <<queryVars, function_result, ticketVars, response_part>>

\* The model service answers the request in flight with one part.
ModelResponds ==
  /\ pc = "AwaitingModel"
  /\ \E part \in ModelParts :
       /\ IsFunctionCall(part) => roundTrips < MaxRoundTrips
       /\ response_part' = part
       /\ chat' = chat \o <<sent, Turn("model", part)>>
       /\ produced' = IF IsFunctionCall(part)
                        THEN Append(produced, Turn("model", part)) ELSE produced
  /\ pc' = "Received"
  /\ UNCHANGED <<queryVars, function_result, ticketVars, messages, prompt, sent,
                 preTurn, roundTrips>>

\* An except handler that records the error in the history.
ExceptHandlerAppends ==
  /\ pc' = "DoneError"
  /\ messages' = Append(messages, Turn("model", TextPart("An error occurred")))

\* except Exception: the error is logged and shown, and the turn ends.
ExceptHandler ==
  /\ pc' = "DoneError"
  /\ messages' = messages

\* The model service raises, or answers without a candidate part.
ModelFault ==
  /\ pc = "AwaitingModel"
  /\ ExceptHandler
  /\ UNCHANGED <<queryVars, function_result, ticketVars, prompt, chat, sent,
                 response_part, preTurn, produced, roundTrips>>

\* A loop that goes on only while the requested tool is a known one.
while_condition_known_tool(part) ==
  IsFunctionCall(part) /\ part.function_call.name \in tools

\* while response_part.function_call
while_condition(part) == IsFunctionCall(part)

\* The tool returned: its result is parsed and sent back as a function
\* response, or the parse fault ends the turn.
AfterTool(name, result) ==
  /\ function_result' = result
  /\ IF json_loads(result).ok
       THEN /\ sent' = Turn("function", FunctionResponsePart(name, json_loads(result).value))
            /\ produced' = Append(produced, sent')
            /\ roundTrips' = roundTrips + 1
            /\ pc' = "AwaitingModel"
            /\ messages' = messages
       ELSE /\ ExceptHandler
            /\ UNCHANGED <<sent, produced, roundTrips>>
  /\ UNCHANGED <<prompt, chat, response_part, preTurn>>

\* The requested tool is in the registry: it is called with the arguments
\* of the request.
Dispatch ==
  /\ pc = "Received"
  /\ while_condition(response_part)
  /\ response_part.function_call.name \in tools
  /\ LET call == response_part.function_call
     IN \/ /\ DOMAIN call.args # ToolParameters[call.name]
           /\ ExceptHandler
           /\ UNCHANGED <<queryVars, function_result, ticketVars, prompt, chat, sent,
                          response_part, preTurn, produced, roundTrips>>
        \/ /\ DOMAIN call.args = ToolParameters[call.name]
           /\ call.name = "query_database"
           /\ \E r \in {query_database(call.args.sql_query, dbExists, db)} :
                /\ sql_query' = call.args.sql_query
                /\ results' = r.results
                /\ connected' = r.connected
                /\ executed' = r.executed
                /\ db' = r.db
                /\ AfterTool(call.name, r.result)
           /\ UNCHANGED <<dbExists, ticketVars>>
        \/ /\ DOMAIN call.args = ToolParameters[call.name]
           /\ call.name = "create_support_ticket"
           /\ \E outcome \in AgentPostOutcomes :
                \E r \in {create_support_ticket(call.args.title, call.args.description,
                                                secrets, outcome)} :
                  /\ ticket' = <<call.args.title, call.args.description>>
                  /\ posts' = r.posts
                  /\ response' = r.response
                  /\ AfterTool(call.name, r.result)
           /\ UNCHANGED <<queryVars, secrets>>

\* An unknown tool ends the turn with a fault instead of a message.
UnknownToolAborts ==
  /\ pc = "Received"
  /\ while_condition(response_part)
  /\ response_part.function_call.name \notin tools
  /\ ExceptHandler
  /\ UNCHANGED <<queryVars, function_result, ticketVars, prompt, chat, sent,
                 response_part, preTurn, produced, roundTrips>>

\* The requested tool is not in the registry: the model is told so, and the
\* loop goes on with its answer.
UnknownTool ==
  /\ pc = "Received"
  /\ while_condition(response_part)
  /\ response_part.function_call.name \notin tools
  /\ sent' = Turn("user", UnknownToolMessage(response_part.function_call.name))
  /\ produced' = Append(produced, sent')
  /\ roundTrips' = roundTrips + 1
  /\ pc' = "AwaitingModel"
  /\ UNCHANGED <<queryVars, function_result, ticketVars, messages, prompt, chat,
                 response_part, preTurn>>

\* The loop is over: the part's text, or the fallback when it has none,
\* becomes the model's turn.
Finish ==
  /\ pc = "Received"
  /\ ~while_condition(response_part)
  /\ LET final_response ==
           IF "text" \in DOMAIN response_part /\ response_part.text # ""
             THEN response_part.text ELSE FallbackResponse
     IN /\ messages' = Append(messages, Turn("model", TextPart(final_response)))
        /\ produced' = Append(produced, Turn("model", TextPart(final_response)))
  /\ pc' = "Done"
  /\ UNCHANGED <<queryVars, function_result, ticketVars, prompt, chat, sent,
                 response_part, preTurn, roundTrips>>

\* The row counts of the movie table while the agent runs.
AgentRowCounts == {1, TruncationLimit + 1}

Init ==
  /\ AgentInit
  /\ \E n \in AgentRowCounts : db = MovieDb(n)
  /\ dbExists \in BOOLEAN
  /\ sql_query = <<>>
  /\ results = <<>>
  /\ connected = FALSE
  /\ executed = <<>>
  /\ function_result = <<>>
  /\ TicketInit

Next ==
  \/ Submit
  \/ ModelResponds
  \/ ModelFault
  \/ Dispatch
  \/ UnknownTool
  \/ Finish

Spec == Init /\ [][Next]_vars

-----------------------------------------------------------------------------
(* Properties of the agent loop, under Spec. *)

\* The model requested a tool of the registry with the arguments it declares.
KnownToolRequested ==
  /\ pc = "Received"
  /\ IsFunctionCall(response_part)
  /\ response_part.function_call.name \in tools
  /\ DOMAIN response_part.function_call.args = ToolParameters[response_part.function_call.name]

\* The model requested a tool that is not in the registry.
UnknownToolRequested ==
  /\ pc = "Received"
  /\ IsFunctionCall(response_part)
  /\ response_part.function_call.name \notin tools

\* C3: when the model requests a tool of the registry, whatever string the
\* tool returns is parsed, wrapped as a function response and sent back, and
\* the loop is in AwaitingModel again: a tool result never ends the turn in
\* the error state.
C3_ToolResultAlwaysSentBack ==
  [][KnownToolRequested => (pc' = "AwaitingModel" /\ sent'.role = "function")]_vars

C7_FaultKeepsHistory ==
  pc = "DoneError" => messages = Append(preTurn, Turn("user", TextPart(prompt)))

\* In a later turn of a session, the result of a tool could not be parsed
\* and the turn ended in the error state.
C7_Witness ==
  /\ pc = "DoneError"
  /\ Len(preTurn) >= 3
  /\ function_result # <<>>
  /\ ~json_loads(function_result).ok
  /\ Len(messages) = Len(preTurn) + 1

RECURSIVE IsSubsequence(_, _)
IsSubsequence(a, b) ==
  IF a = <<>> THEN TRUE
  ELSE IF b = <<>> THEN FALSE
  ELSE IF Head(a) = Head(b) THEN IsSubsequence(Tail(a), Tail(b))
  ELSE IsSubsequence(a, Tail(b))

\* Every turn of the session so far ended with the model's turn.
NoTurnFaulted ==
  \A i \in 1..(Len(messages) - 1) :
    messages[i].role = "user" => messages[i + 1].role = "model"

\* C9, in a session none of whose turns ended in a fault: whenever a request
\* is in flight to the model, the history it carries holds, in order, every
\* user, model and function-response turn produced so far in the session.
C9_HistoryHasEveryTurn ==
  (pc = "AwaitingModel" /\ NoTurnFaulted) => IsSubsequence(produced, SentHistory)

\* C10: the loop goes on exactly while the latest part is a function call,
\* whatever the number of tool calls so far, and a turn is done, with the
\* model's turn appended, only after a part that is not a function call.
C10_LoopEndsOnlyOnText ==
  /\ [](pc = "Done" =>
          /\ ~IsFunctionCall(response_part)
          /\ messages[Len(messages)].role = "model"
          /\ Len(messages) = Len(preTurn) + 2)
  /\ [][pc = "Received" =>
          /\ IsFunctionCall(response_part) <=> pc' \in {"AwaitingModel", "DoneError"}
          /\ ~IsFunctionCall(response_part) <=> pc' = "Done"]_vars

\* Every request of the session after the prompt carried a tool result: the
\* one turn holds as many tool calls as the session has requests left.
C10_Witness ==
  /\ pc = "AwaitingModel"
  /\ sent.role = "function"
  /\ roundTrips = MaxRoundTrips
  /\ Len(preTurn) = 1
  /\ \A i \in (Len(preTurn) + 2)..Len(chat) :
       chat[i].role = "model" => IsFunctionCall(chat[i].parts)
  /\ Cardinality({i \in DOMAIN SentHistory : SentHistory[i].role = "function"})
       = MaxRoundTrips - 1

====
